---- MODULE Spec2Model ----
(***************************************************************************)
(* A model of scripts/monitor.py, the UWB scanner monitor: main() opens an *)
(* optional log file and the serial port, then reads the port line by      *)
(* line; every line is split at its first '{' and last '}' into plain text *)
(* and a JSON candidate, the candidate is decoded (parse_device_info) and  *)
(* a decoded record is rendered by its 'type' (format_device_info).        *)
(*                                                                         *)
(* Text is modelled by TLA+ strings, character for character; positions    *)
(* are Python's (0-based), slices are Python's half-open s[a:b].  What is  *)
(* printed is the sequence of the arguments of the print() calls.          *)
(***************************************************************************)
EXTENDS Integers, Sequences, FiniteSets, TLC

(***************************************************************************)
(* Bounds of the model.                                                    *)
(***************************************************************************)
\* the longest stream of SmallLines the port delivers
MaxLines == 2

(***************************************************************************)
(* Python's str operations used by main(): indexing, slicing, find, rfind, *)
(* strip.                                                                  *)
(***************************************************************************)
\* the characters of s at the 1-based positions a..b that s has
Sub(s, a, b) ==
  LET lo == IF a < 1 THEN 1 ELSE a
      hi == IF b > Len(s) THEN Len(s) ELSE b
  IN  IF lo > hi THEN "" ELSE SubSeq(s, lo, hi)

\* s[i], 0-based
At(s, i) == Sub(s, i + 1, i + 1)

\* s[a:b], for 0 <= a, b
Slice(s, a, b) == Sub(s, a + 1, b)

\* the characters str.strip() removes that occur in the modelled input
Whitespace == {" ", "\t"}

\* s.find(c): the lowest index of c in s, or -1
Find(s, c) ==
  IF \E i \in 0..(Len(s) - 1) : At(s, i) = c
  THEN CHOOSE i \in 0..(Len(s) - 1) : At(s, i) = c /\ \A j \in 0..(i - 1) : At(s, j) # c
  ELSE -1

\* s.rfind(c): the highest index of c in s, or -1
RFind(s, c) ==
  IF \E i \in 0..(Len(s) - 1) : At(s, i) = c
  THEN CHOOSE i \in 0..(Len(s) - 1) :
         At(s, i) = c /\ \A j \in (i + 1)..(Len(s) - 1) : At(s, j) # c
  ELSE -1

\* s.strip(): s without its leading and trailing whitespace
Strip(s) ==
  IF \A i \in 0..(Len(s) - 1) : At(s, i) \in Whitespace THEN ""
  ELSE Slice(s,
             CHOOSE lo \in 0..(Len(s) - 1) :
               At(s, lo) \notin Whitespace /\ \A j \in 0..(lo - 1) : At(s, j) \in Whitespace,
             1 + CHOOSE hi \in 0..(Len(s) - 1) :
               /\ At(s, hi) \notin Whitespace
               /\ \A j \in (hi + 1)..(Len(s) - 1) : At(s, j) \in Whitespace)

(***************************************************************************)
(* Decoded JSON values.  A value keeps its Python type t, its str() text   *)
(* s (for a list or a dict: its repr) and, for a number, its sign neg and  *)
(* its decimal value m / 10^e.  The decoded top-level object is a function *)
(* from its keys to values, like the dict json.loads returns.              *)
(***************************************************************************)
Digits == {"0", "1", "2", "3", "4", "5", "6", "7", "8", "9"}

DigitVal(c) == CHOOSE d \in 0..9 : At("0123456789", d) = c

RECURSIVE NatOf(_)
\* the number a string of digits denotes
NatOf(ds) ==
  IF ds = "" THEN 0
  ELSE 10 * NatOf(Sub(ds, 1, Len(ds) - 1)) + DigitVal(Sub(ds, Len(ds), Len(ds)))

RECURSIVE Pow10(_)
Pow10(k) == IF k = 0 THEN 1 ELSE 10 * Pow10(k - 1)

\* n in decimal, at least w digits wide, zero-padded
Pad(n, w) == IF w = 2 /\ n < 10 THEN "0" \o ToString(n) ELSE ToString(n)

RECURSIVE TrimZeros(_)
\* a fraction's digits without trailing zeros, but never fewer than one digit
TrimZeros(ds) ==
  IF Len(ds) > 1 /\ Sub(ds, Len(ds), Len(ds)) = "0"
  THEN TrimZeros(Sub(ds, 1, Len(ds) - 1))
  ELSE ds

PyStr(s) == [t |-> "str", s |-> s, neg |-> FALSE, m |-> 0, e |-> 0]

PyInt(neg, m) ==
  [t |-> "int", s |-> (IF neg /\ m > 0 THEN "-" ELSE "") \o ToString(m),
   neg |-> neg /\ m > 0, m |-> m, e |-> 0]

\* the float a JSON numeral with integer digits ip and fraction digits fp decodes to
PyFloat(neg, ip, fp) ==
  [t |-> "float",
   s |-> (IF neg THEN "-" ELSE "") \o ToString(NatOf(ip)) \o "." \o TrimZeros(fp),
   neg |-> neg, m |-> NatOf(ip \o fp), e |-> Len(fp)]

PyNone == [t |-> "NoneType", s |-> "None", neg |-> FALSE, m |-> 0, e |-> 0]

PyBool(b) ==
  [t |-> "bool", s |-> (IF b THEN "True" ELSE "False"), neg |-> FALSE,
   m |-> (IF b THEN 1 ELSE 0), e |-> 0]

PyList(repr) == [t |-> "list", s |-> repr, neg |-> FALSE, m |-> 0, e |-> 0]

PyDict(repr) == [t |-> "dict", s |-> repr, neg |-> FALSE, m |-> 0, e |-> 0]

\* repr(v), as it shows inside the repr of a list or a dict
Repr(v) == IF v.t = "str" THEN "'" \o v.s \o "'" ELSE v.s

RECURSIVE DictRepr(_, _)
\* the items of repr(d), in insertion order
DictRepr(d, keys) ==
  IF keys = << >> THEN ""
  ELSE "'" \o Head(keys) \o "': " \o Repr(d[Head(keys)])
       \o (IF Len(keys) > 1 THEN ", " ELSE "") \o DictRepr(d, Tail(keys))

\* d[k] = v
DictSet(d, k, v) == [x \in (DOMAIN d) \cup {k} |-> IF x = k THEN v ELSE d[x]]

(***************************************************************************)
(* json.loads, by recursive descent over the characters, as the json       *)
(* module's scanner decodes them.  Positions p are 1-based.  The modelled  *)
(* input has no backslash and no exponent, so string escapes and the       *)
(* exponent part of numbers are left out of the grammar.                   *)
(***************************************************************************)
JsonWs == {" ", "\t", "\n", "\r"}

Ch(s, p) == Sub(s, p, p)

\* the first position from p on whose character is not in cs (Len(s)+1 if none)
SkipWhile(s, p, cs) ==
  CHOOSE q \in p..(Len(s) + 1) :
    /\ \A i \in p..(q - 1) : Ch(s, i) \in cs
    /\ Ch(s, q) \notin cs

SkipWs(s, p) == SkipWhile(s, p, JsonWs)

JsonFail == [ok |-> FALSE, p |-> 0, v |-> PyNone]

JsonOk(p, v) == [ok |-> TRUE, p |-> p, v |-> v]

\* the string literal at p that closes at q (0: it does not close)
StringUpTo(s, p, q) ==
  IF q = 0 \/ \E i \in (p + 1)..(q - 1) : Ch(s, i) \in {"\t", "\n", "\r"} THEN JsonFail
  ELSE JsonOk(q + 1, PyStr(Sub(s, p + 1, q - 1)))

\* the first position from p on that holds c (0 if none)
Next1(s, p, c) ==
  IF \E q \in p..Len(s) : Ch(s, q) = c
  THEN CHOOSE q \in p..Len(s) : Ch(s, q) = c /\ \A i \in p..(q - 1) : Ch(s, i) # c
  ELSE 0

\* a string literal starting at p
ParseString(s, p) ==
  IF Ch(s, p) # "\"" THEN JsonFail ELSE StringUpTo(s, p, Next1(s, p + 1, "\""))

\* the number whose integer digits are s[i0..i1-1] and whose fraction, if it has
\* one, is s[i1+1..f1-1]
NumberOf(s, neg, i0, i1, f1) ==
  IF i1 = i0 THEN JsonFail
  ELSE IF Ch(s, i1) = "." /\ f1 > i1 + 1
  THEN JsonOk(f1, PyFloat(neg, Sub(s, i0, i1 - 1), Sub(s, i1 + 1, f1 - 1)))
  ELSE JsonOk(i1, PyInt(neg, NatOf(Sub(s, i0, i1 - 1))))

\* the end of the integer digits that start at i0: a leading 0 stands alone
IntEnd(s, i0) == IF Ch(s, i0) = "0" THEN i0 + 1 ELSE SkipWhile(s, i0, Digits)

UnsignedAt(s, neg, i0, i1) == NumberOf(s, neg, i0, i1, SkipWhile(s, i1 + 1, Digits))

\* a number starting at p: -? (0 | [1-9][0-9]*) (. [0-9]+)?
ParseNumber(s, p) ==
  IF Ch(s, p) = "-" THEN UnsignedAt(s, TRUE, p + 1, IntEnd(s, p + 1))
  ELSE UnsignedAt(s, FALSE, p, IntEnd(s, p))

MembersFail == [ok |-> FALSE, p |-> 0, d |-> << >>, keys |-> << >>]

MembersOk(p, d, keys) == [ok |-> TRUE, p |-> p, d |-> d, keys |-> keys]

\* the value a decoded nested object stands for
DictValue(r) ==
  IF r.ok THEN JsonOk(r.p, PyDict("{" \o DictRepr(r.d, r.keys) \o "}")) ELSE JsonFail

RECURSIVE ParseValue(_, _), ParseItems(_, _, _), ItemsNext(_, _, _),
          ParseObject(_, _), ParseMembers(_, _, _, _), MembersColon(_, _, _, _),
          MembersValue(_, _, _, _, _), MembersNext(_, _, _, _)

\* the JSON value starting at p
ParseValue(s, p) ==
  CASE Ch(s, p) = "\"" -> ParseString(s, p)
    [] Ch(s, p) = "{" -> DictValue(ParseObject(s, SkipWs(s, p + 1)))
    [] Ch(s, p) = "[" -> ParseItems(s, SkipWs(s, p + 1), "[")
    [] Ch(s, p) = "-" \/ Ch(s, p) \in Digits -> ParseNumber(s, p)
    [] Sub(s, p, p + 3) = "null" -> JsonOk(p + 4, PyNone)
    [] Sub(s, p, p + 3) = "true" -> JsonOk(p + 4, PyBool(TRUE))
    [] Sub(s, p, p + 4) = "false" -> JsonOk(p + 5, PyBool(FALSE))
    [] OTHER -> JsonFail

\* the items of an array from p on, up to its ']'; acc is the repr so far
ParseItems(s, p, acc) ==
  IF acc = "[" /\ Ch(s, p) = "]" THEN JsonOk(p + 1, PyList("[]"))
  ELSE ItemsNext(s, ParseValue(s, p), acc)

\* after the item: ']' ends the array, ',' brings the next item
ItemsNext(s, item, acc) ==
  IF ~item.ok THEN JsonFail
  ELSE IF Ch(s, SkipWs(s, item.p)) = "]"
  THEN JsonOk(SkipWs(s, item.p) + 1, PyList(acc \o Repr(item.v) \o "]"))
  ELSE IF Ch(s, SkipWs(s, item.p)) = ","
  THEN ItemsNext(s, ParseValue(s, SkipWs(s, SkipWs(s, item.p) + 1)),
                 acc \o Repr(item.v) \o ", ")
  ELSE JsonFail

\* the inside of an object, p being the first position after '{' and whitespace
ParseObject(s, p) ==
  IF Ch(s, p) = "}" THEN MembersOk(p + 1, << >>, << >>)
  ELSE ParseMembers(s, p, << >>, << >>)

\* the members of an object from p on, up to its '}'; d and keys are the dict so far
ParseMembers(s, p, d, keys) == MembersColon(s, ParseString(s, p), d, keys)

\* after the key: the ':' and the value
MembersColon(s, key, d, keys) ==
  IF ~key.ok \/ Ch(s, SkipWs(s, key.p)) # ":" THEN MembersFail
  ELSE MembersValue(s, key.v.s, ParseValue(s, SkipWs(s, SkipWs(s, key.p) + 1)), d, keys)

\* d[k] = val
MembersValue(s, k, val, d, keys) ==
  IF ~val.ok THEN MembersFail
  ELSE MembersNext(s, SkipWs(s, val.p), DictSet(d, k, val.v),
                   IF k \in DOMAIN d THEN keys ELSE Append(keys, k))

\* after the value: '}' ends the object, ',' brings the next member
MembersNext(s, q, d, keys) ==
  IF Ch(s, q) = "}" THEN MembersOk(q + 1, d, keys)
  ELSE IF Ch(s, q) = "," THEN ParseMembers(s, SkipWs(s, q + 1), d, keys)
  ELSE MembersFail

JsonError == [ok |-> FALSE, isdict |-> FALSE, d |-> << >>, v |-> PyNone]

\* the document is the object r: nothing but whitespace may follow it
ObjectDocument(data, r) ==
  IF r.ok /\ SkipWs(data, r.p) = Len(data) + 1
  THEN [ok |-> TRUE, isdict |-> TRUE, d |-> r.d, v |-> DictValue(r).v]
  ELSE JsonError

\* the document is the value r: nothing but whitespace may follow it
ValueDocument(data, r) ==
  IF r.ok /\ SkipWs(data, r.p) = Len(data) + 1
  THEN [ok |-> TRUE, isdict |-> FALSE, d |-> << >>, v |-> r.v]
  ELSE JsonError

\* the document that starts at p, after the leading whitespace
DocumentAt(data, p) ==
  IF Ch(data, p) = "{" THEN ObjectDocument(data, ParseObject(data, SkipWs(data, p + 1)))
  ELSE ValueDocument(data, ParseValue(data, p))

\* json.loads(data): ok is FALSE where it raises JSONDecodeError.  isdict tells
\* whether the document is an object; d is then the decoded dict.
JsonLoads(data) == DocumentAt(data, SkipWs(data, 1))

(***************************************************************************)
(* parse_device_info and format_device_info.                               *)
(***************************************************************************)
\* what parse_device_info returns: the decoded document, or None
None == [isNone |-> TRUE, isdict |-> FALSE, d |-> << >>, v |-> PyNone]

\* the return value for what json.loads gave
Returned(r) ==
  IF r.ok THEN [isNone |-> FALSE, isdict |-> r.isdict, d |-> r.d, v |-> r.v] ELSE None

parse_device_info(data) == Returned(JsonLoads(data))

\* a mutant of Truthy: the test `if info:` is left out
Truthy_Always(info) == TRUE

\* bool(info), the test of `if info:`
Truthy(info) ==
  /\ ~info.isNone
  /\ IF info.isdict THEN DOMAIN info.d # {}
     ELSE CASE info.v.t = "str" -> info.v.s # ""
            [] info.v.t \in {"int", "float", "bool"} -> info.v.m # 0
            [] info.v.t = "list" -> info.v.s # "[]"
            [] OTHER -> FALSE

\* info.get(key, default)
Get(info, key, default) == IF key \in DOMAIN info.d THEN info.d[key] ELSE default

\* info.get('type') == name
TypeIs(info, name) ==
  LET typ == Get(info, "type", PyNone) IN typ.t = "str" /\ typ.s = name

\* v / 100, for a number v
Div100(v) == [v EXCEPT !.t = "float", !.e = v.e + 2]

\* m / 10^e rounded to hundredths, half to even (the decimal value stands for the
\* double: the modelled inputs have no tie that the binary value breaks)
Hundredths(m, e) ==
  IF e <= 2 THEN m * Pow10(2 - e)
  ELSE LET unit == Pow10(e - 2)
           q == m \div unit
           r == m % unit
       IN  IF 2 * r > unit \/ (2 * r = unit /\ q % 2 = 1) THEN q + 1 ELSE q

\* format(v, '.2f'): raised names the exception where the type has no 'f' format
Fmt2f(v) ==
  IF v.t \in {"int", "float", "bool"}
  THEN LET h == Hundredths(v.m, v.e)
       IN  [raised |-> "none",
            s |-> (IF v.neg THEN "-" ELSE "") \o ToString(h \div 100) \o "."
                  \o Pad(h % 100, 2)]
  ELSE [raised |-> (IF v.t = "str" THEN "ValueError" ELSE "TypeError"), s |-> ""]

SepWidth == 60

RECURSIVE Rep(_, _)
\* c * k
Rep(c, k) == IF k = 0 THEN "" ELSE c \o Rep(c, k - 1)

Separator == Rep("=", SepWidth)

\* the prints of the device_found branch, in order, each with the exception its
\* f-string raises ("none" if it formats)
DeviceFoundPrints(info) ==
  LET addr      == Get(info, "device_addr", PyStr("Unknown"))
      dist      == Get(info, "distance_cm", PyInt(FALSE, 0))
      rssi      == Get(info, "rssi_dbm", PyInt(FALSE, 0))
      timestamp == Get(info, "timestamp_ms", PyInt(FALSE, 0))
      channel   == Get(info, "channel", PyInt(FALSE, 0))
      prf       == Get(info, "prf", PyInt(FALSE, 0))
      quality   == Get(info, "frame_quality", PyInt(FALSE, 0))
      cm        == Fmt2f(dist)
      metres    == Fmt2f(Div100(dist))
      dbm       == Fmt2f(rssi)
      plain(s)  == [raised |-> "none", s |-> s]
  IN  << plain("\n" \o Separator),
         plain("Device Found: 0x" \o addr.s),
         plain(Separator),
         plain("Timestamp:      " \o timestamp.s \o " ms"),
         [raised |-> cm.raised,
          s |-> "Distance:       " \o cm.s \o " cm (" \o metres.s \o " m)"],
         [raised |-> dbm.raised, s |-> "RSSI:           " \o dbm.s \o " dBm"],
         plain("Channel:        " \o channel.s),
         plain("PRF:            " \o prf.s \o " MHz"),
         plain("Frame Quality:  " \o quality.s),
         plain(Separator) >>

\* the prints ps up to the first whose f-string raises
PrintsUntilRaise(ps) ==
  IF \A i \in 1..Len(ps) : ps[i].raised = "none"
  THEN [out |-> [i \in 1..Len(ps) |-> ps[i].s], raised |-> "none"]
  ELSE [out |-> [i \in {j \in 1..Len(ps) : \A k \in 1..j : ps[k].raised = "none"}
                   |-> ps[i].s],
        raised |-> ps[CHOOSE i \in 1..Len(ps) :
                        /\ ps[i].raised # "none"
                        /\ \A k \in 1..(i - 1) : ps[k].raised = "none"].raised]

\* the line of the status and error branches
MessageLine(info, now, label) ==
  "[" \o now \o "] " \o label \o ": " \o Get(info, "message", PyStr("")).s

\* format_device_info(info) at wall-clock time now (HH:MM:SS): what it prints, and
\* the exception that ends it ("none" if it returns)
format_device_info(info, now) ==
  IF ~info.isdict THEN [out |-> << >>, raised |-> "AttributeError"]
  ELSE IF TypeIs(info, "device_found") THEN PrintsUntilRaise(DeviceFoundPrints(info))
  ELSE IF TypeIs(info, "status")
  THEN [out |-> << MessageLine(info, now, "STATUS") >>, raised |-> "none"]
  ELSE IF TypeIs(info, "error")
  THEN [out |-> << MessageLine(info, now, "ERROR") >>, raised |-> "none"]
  ELSE [out |-> << >>, raised |-> "none"]

(***************************************************************************)
(* The body of main()'s read loop for one decoded, stripped, non-empty     *)
(* line: the split at the first '{' and the last '}', then decode and      *)
(* render.                                                                 *)
(***************************************************************************)
\* a mutant of JsonStart: a line with no '{' is split at its first '}'
JsonStart_AnyBrace(stripped) ==
  IF Find(stripped, "{") = -1 THEN Find(stripped, "}") ELSE Find(stripped, "{")

\* stripped.find('{')
JsonStart(stripped) == Find(stripped, "{")

\* a mutant of JsonEnd: the first '}' instead of the last
JsonEnd_First(stripped) == Find(stripped, "}")

\* stripped.rfind('}')
JsonEnd(stripped) == RFind(stripped, "}")

\* the text printed ahead of the candidate ("" if none is printed)
PrefixOf(stripped) ==
  IF JsonStart(stripped) > 0 THEN Strip(Slice(stripped, 0, JsonStart(stripped))) ELSE ""

\* stripped from its first '{' on
FromBrace(stripped) ==
  IF JsonStart(stripped) > 0 THEN Slice(stripped, JsonStart(stripped), Len(stripped))
  ELSE stripped

\* a mutant of HasTail: the test json_end > -1 is left out
HasTail_NoFoundTest(rest) == JsonEnd(rest) + 1 < Len(rest)

\* whether the text after the last '}' is cut off the candidate
HasTail(rest) == JsonEnd(rest) > -1 /\ JsonEnd(rest) + 1 < Len(rest)

\* the text printed after the candidate ("" if none is printed)
SuffixOf(rest) ==
  IF HasTail(rest) THEN Strip(Slice(rest, JsonEnd(rest) + 1, Len(rest))) ELSE ""

\* the string handed to parse_device_info
CandidateOf(rest) == IF HasTail(rest) THEN Slice(rest, 0, JsonEnd(rest) + 1) ELSE rest

Tagged(kind, texts) == [i \in 1..Len(texts) |-> [kind |-> kind, text |-> texts[i]]]

\* the print of a plain-text segment, if it is not empty (lines 97-98, 107-108)
PrintSegment(kind, text) == IF text # "" THEN Tagged(kind, << text >>) ELSE << >>

\* lines 83-102 found no candidate; out is what they printed
NoCandidate(out) ==
  [out |-> out, has_candidate |-> FALSE, candidate |-> "", info |-> None]

\* lines 104-111: cut the text after the last '}' off rest, and decode the candidate
SplitTail(prefix, rest, cand) ==
  [out |-> PrintSegment("prefix", prefix) \o PrintSegment("suffix", SuffixOf(rest)),
   has_candidate |-> TRUE, candidate |-> cand, info |-> parse_device_info(cand)]

\* lines 90-102: split the stripped line at its first '{'
SplitLine(stripped) ==
  IF stripped = "" THEN NoCandidate(<< >>)
  ELSE IF JsonStart(stripped) = -1 THEN NoCandidate(Tagged("plain", << stripped >>))
  ELSE SplitTail(PrefixOf(stripped), FromBrace(stripped), CandidateOf(FromBrace(stripped)))

\* Lines 83-111 for line: the plain text printed (each print tagged with the
\* statement that made it), the candidate, and what parse_device_info returned.
Decoded(line) == SplitLine(Strip(line))

\* a mutant of Formatted: the record is rendered ahead of the plain-text segments
Formatted_RecordFirst(dec, fmt) ==
  [out |-> Tagged("record", fmt.out) \o dec.out, has_candidate |-> TRUE,
   candidate |-> dec.candidate, decodes |-> ~dec.info.isNone, parse_calls |-> 1,
   format_calls |-> 1, raised |-> fmt.raised]

\* line 113: format_device_info(info) was called and gave fmt
Formatted(dec, fmt) ==
  [out |-> dec.out \o Tagged("record", fmt.out), has_candidate |-> TRUE,
   candidate |-> dec.candidate, decodes |-> ~dec.info.isNone, parse_calls |-> 1,
   format_calls |-> 1, raised |-> fmt.raised]

\* Lines 112-116 after dec: render the decoded record at time now, or print the
\* candidate as it is.  Gives the prints of the whole loop body in order, whether
\* json.loads decoded the candidate, the calls made and the exception raised.
Rendered(dec, now) ==
  IF ~dec.has_candidate
  THEN [out |-> dec.out, has_candidate |-> FALSE, candidate |-> "", decodes |-> FALSE,
        parse_calls |-> 0, format_calls |-> 0, raised |-> "none"]
  ELSE IF Truthy(dec.info) THEN Formatted(dec, format_device_info(dec.info, now))
  ELSE [out |-> dec.out \o Tagged("raw", << dec.candidate >>), has_candidate |-> TRUE,
        candidate |-> dec.candidate, decodes |-> ~dec.info.isNone, parse_calls |-> 1,
        format_calls |-> 0, raised |-> "none"]

(***************************************************************************)
(* The input: what the serial port delivers.  One item is the result of    *)
(* one readline(): bytes that decode as UTF-8 to text, or bytes that do    *)
(* not.                                                                    *)
(***************************************************************************)
\* the longest line made of arbitrary characters of Alphabet
MaxBraceLen == 4

Alphabet == {"a", " ", "{", "}"}

RECURSIVE Strs(_)
\* the strings over Alphabet of length at most n
Strs(n) ==
  IF n = 0 THEN {""}
  ELSE LET shorter == Strs(n - 1) IN shorter \cup {s \o c : s \in shorter, c \in Alphabet}

BraceLines == Strs(MaxBraceLen)

\* text ahead of an object: no '{'
Prefixes == {"", " ", "Zephyr: init ", "  a } b", "}", "a"}

\* text behind an object: no '}'
Suffixes == {"", " ", " done", "b  ", " { c", "{"}

\* syntactically valid flat JSON objects
FlatObjects ==
  { "{}",
    "{ }",
    "{\"type\":\"status\",\"message\":\"scanning\"}",
    "{\"type\": \"error\", \"message\": \"}{\"}",
    "{\"type\":\"other\"}",
    "{\"message\":\"no type\"}",
    "{\"type\":\"device_found\",\"device_addr\":\"1A2B3C4D\",\"distance_cm\":7}",
    "{\"type\":null,\"n\":-0.5,\"b\":true}" }

\* candidates that json.loads rejects
Malformed ==
  { "{\"type\":\"device_found\",",
    "{\"type\":\"status\",\"message\":\"scanning\"",
    "{\"type\":\"status\",}",
    "{\"type\":\"status\"} x}",
    "{\"type\":\"status\"}{\"type\":\"error\"}",
    "{type:status}",
    "{\"n\":01}" }

SplitLines == {p \o b \o s : p \in Prefixes, b \in FlatObjects \cup Malformed, s \in Suffixes}

\* the kind-specific fields of device_found with a value of the wire schema
DeviceFields ==
  << <<"device_addr", "\"1A2B3C4D\"">>,
     <<"distance_cm", "123.45">>,
     <<"rssi_dbm", "-72.5">>,
     <<"timestamp_ms", "9001">>,
     <<"channel", "5">>,
     <<"prf", "64">>,
     <<"frame_quality", "87">> >>

RECURSIVE Members(_, _, _)
\* ,"name":value for the fields numbered i.. of fields that are in present
Members(fields, present, i) ==
  IF i > Len(fields) THEN ""
  ELSE (IF i \in present
        THEN ",\"" \o fields[i][1] \o "\":" \o fields[i][2]
        ELSE "")
       \o Members(fields, present, i + 1)

\* the object of the given type with the fields in present
ObjectText(type, fields, present) ==
  "{\"type\":\"" \o type \o "\"" \o Members(fields, present, 1) \o "}"

DeviceLines ==
  {ObjectText("device_found", DeviceFields, S) : S \in SUBSET (1..Len(DeviceFields))}

MessageFields == << <<"message", "\"scanning\"">> >>

MessageLines ==
  {ObjectText(t, MessageFields, S) : t \in {"status", "error"}, S \in SUBSET {1}}

\* JSON values that are no numbers
NonNumbers == {"\"12\"", "null", "[1, \"x\"]", "[]", "{\"a\":1}", "{}"}

\* device_found records whose distance_cm or rssi_dbm is no number
MistypedLines ==
  {ObjectText("device_found", << <<f, v>> >>, {1}) :
     f \in {"distance_cm", "rssi_dbm"}, v \in NonNumbers}

RecordLines ==
  DeviceLines \cup MessageLines \cup MistypedLines
  \cup { "{\"type\":\"device_found\",\"distance_cm\":true,\"rssi_dbm\":7}",
         "{\"type\":\"device_found\",\"device_addr\":null,\"channel\":[1]}",
         "{\"type\":[\"status\"]}" }

Text(s) == [ok |-> TRUE, text |-> s]

\* bytes that are not UTF-8
Undecodable == [ok |-> FALSE, text |-> ""]

BroadLines == BraceLines \cup SplitLines \cup RecordLines \cup {"Booting UWB firmware v1.2"}

\* the lines of the longer streams
SmallLines ==
  { Text("Booting UWB firmware v1.2"),
    Text("  "),
    Text("Zephyr: init {\"type\":\"status\",\"message\":\"scanning\"} done"),
    Text("{\"type\":\"device_found\",\"device_addr\":\"1A2B3C4D\",\"distance_cm\":123.45}"),
    Text("{\"type\":\"device_found\",\"distance_cm\":\"12\"}"),
    Text("log {\"type\":\"device_found\","),
    Text("{\"type\":\"other\"}"),
    Undecodable }

\* what the device may send once the port is open, one item per readline(): one
\* line of BroadLines, or up to MaxLines of SmallLines
Streams ==
  {<< Text(l) >> : l \in BroadLines}
  \cup UNION {[1..n -> SmallLines] : n \in 0..MaxLines}

\* the wall-clock times datetime.now().strftime('%H:%M:%S') returns
Clock == {"00:00:00", "23:59:59"}

\* args.output: "" when -o is not given
OutputArgs == {"", "scan.log"}

(***************************************************************************)
(* main()                                                                  *)
(***************************************************************************)
VARIABLES
  pc,           \* where main() is
  args_output,  \* args.output
  output_file,  \* the log file: "None", "open" or "closed"
  ser,          \* the serial port: "None", "open" or "closed"
  pending,      \* what the port has yet to deliver
  nread,        \* the number of readline() calls that returned
  history,      \* per readline() that returned: the line and what the loop body did
  stdout,       \* the print() calls so far: the line they belong to (0: none) and the text
  log,          \* the lines written to the log file
  exc,          \* the exception propagating, "none" if none
  status,       \* the exit status, "running" before the process ends
  closes        \* the number of close() calls on the log file and on the port

vars == << pc, args_output, output_file, ser, pending, nread, history, stdout, log,
          exc, status, closes >>

Init ==
  /\ pc = "open_output"
  /\ args_output \in OutputArgs
  /\ output_file = "None"
  /\ ser = "None"
  /\ pending = << >>
  /\ nread = 0
  /\ history = << >>
  /\ stdout = << >>
  /\ log = << >>
  /\ exc = "none"
  /\ status = "running"
  /\ closes = [file |-> 0, port |-> 0]

Printed(n, kind, text) == [n |-> n, kind |-> kind, text |-> text]

\* where control goes when e is raised inside the try block
Raise(e) ==
  CASE e = "SerialException" -> "except_serial"
    [] e = "KeyboardInterrupt" -> "except_interrupt"
    [] OTHER -> "finally"

\* lines 64-68: open the log file when -o is given
OpenOutput ==
  /\ pc = "open_output"
  /\ IF args_output # ""
     THEN /\ output_file' = "open"
          /\ stdout' = Append(stdout, Printed(0, "main", "Logging to: " \o args_output))
     ELSE UNCHANGED << output_file, stdout >>
  /\ pc' = "connect"
  /\ UNCHANGED << args_output, ser, pending, nread, history, log, exc, status, closes >>

\* line 67: open() raises, outside the try block
OpenOutputFails ==
  /\ pc = "open_output"
  /\ args_output # ""
  /\ pc' = "exit"
  /\ exc' = "OSError"
  /\ status' = "1"
  /\ UNCHANGED << args_output, output_file, ser, pending, nread, history, stdout, log,
                  closes >>

\* lines 74-77: the port opens; from now on the device sends
Connect ==
  /\ pc = "connect"
  /\ ser' = "open"
  /\ pending' \in Streams
  /\ stdout' = stdout \o << Printed(0, "main", "Connecting to port..."),
                            Printed(0, "main", "Connected!"),
                            Printed(0, "main", "Waiting for device data...\n") >>
  /\ pc' = "loop"
  /\ UNCHANGED << args_output, output_file, nread, history, log, exc, status, closes >>

\* line 75: serial.Serial() raises, or the user interrupts
ConnectFails ==
  /\ pc = "connect"
  /\ \E e \in {"SerialException", "KeyboardInterrupt", "ValueError"} :
       /\ exc' = e
       /\ pc' = Raise(e)
  /\ stdout' = Append(stdout, Printed(0, "main", "Connecting to port..."))
  /\ UNCHANGED << args_output, output_file, ser, pending, nread, history, log, status,
                  closes >>

\* what history keeps of one readline() that decoded
Entry(raw, line, now, r) ==
  [decoded |-> TRUE, raw |-> raw, line |-> line, now |-> now,
   has_candidate |-> r.has_candidate, candidate |-> r.candidate,
   decodes |-> r.decodes, parse_calls |-> r.parse_calls,
   format_calls |-> r.format_calls, raised |-> r.raised]

\* the loop body has run over line with result r
Processed(raw, line, now, r) ==
  /\ history' = Append(history, Entry(raw, line, now, r))
  /\ stdout' = stdout \o [i \in 1..Len(r.out) |->
                            Printed(nread + 1, r.out[i].kind, r.out[i].text)]
  /\ log' = IF line # "" /\ output_file = "open" THEN Append(log, line) ELSE log
  /\ exc' = r.raised
  /\ pc' = IF r.raised = "none" THEN "loop" ELSE Raise(r.raised)

\* lines 82-116: one readline() that decodes, and the loop body for its line
ReadLine ==
  /\ pc = "loop"
  /\ pending # << >>
  /\ Head(pending).ok
  /\ LET raw  == Head(pending).text
         line == Strip(raw)
         dec  == Decoded(line)
     IN  \E now \in Clock : Processed(raw, line, now, Rendered(dec, now))
  /\ pending' = Tail(pending)
  /\ nread' = nread + 1
  /\ UNCHANGED << args_output, output_file, ser, status, closes >>

\* lines 82, 118-120: the bytes are not UTF-8; the line is skipped
ReadUndecodable ==
  /\ pc = "loop"
  /\ pending # << >>
  /\ ~Head(pending).ok
  /\ history' = Append(history,
                  [decoded |-> FALSE, raw |-> "", line |-> "", now |-> "",
                   has_candidate |-> FALSE, candidate |-> "", decodes |-> FALSE,
                   parse_calls |-> 0, format_calls |-> 0, raised |-> "none"])
  /\ pending' = Tail(pending)
  /\ nread' = nread + 1
  /\ UNCHANGED << pc, args_output, output_file, ser, stdout, log, exc, status, closes >>

\* line 82: readline() raises SerialException (the device is gone)
ReadFails ==
  /\ pc = "loop"
  /\ exc' = "SerialException"
  /\ pc' = Raise("SerialException")
  /\ UNCHANGED << args_output, output_file, ser, pending, nread, history, stdout, log,
                  status, closes >>

\* Ctrl-C while the loop waits for a line
Interrupt ==
  /\ pc = "loop"
  /\ exc' = "KeyboardInterrupt"
  /\ pc' = Raise("KeyboardInterrupt")
  /\ UNCHANGED << args_output, output_file, ser, pending, nread, history, stdout, log,
                  status, closes >>

\* lines 122-124: report the serial error and sys.exit(1)
ExceptSerial ==
  /\ pc = "except_serial"
  /\ stdout' = Append(stdout, Printed(0, "main", "Serial error: SerialException"))
  /\ exc' = "SystemExit"
  /\ pc' = "finally"
  /\ UNCHANGED << args_output, output_file, ser, pending, nread, history, log, status,
                  closes >>

\* lines 126-127
ExceptInterrupt ==
  /\ pc = "except_interrupt"
  /\ stdout' = Append(stdout, Printed(0, "main", "\nExiting..."))
  /\ exc' = "none"
  /\ pc' = "finally"
  /\ UNCHANGED << args_output, output_file, ser, pending, nread, history, log, status,
                  closes >>

\* a mutant of Finally: sys.exit(1) ends the process with the port still open
Finally_ExitSkipsPort ==
  /\ pc = "finally"
  /\ output_file' = IF output_file # "None" THEN "closed" ELSE output_file
  /\ ser' = IF ser # "None" /\ exc # "SystemExit" THEN "closed" ELSE ser
  /\ closes' = [file |-> closes.file + (IF output_file # "None" THEN 1 ELSE 0),
                port |-> closes.port
                         + (IF ser # "None" /\ exc # "SystemExit" THEN 1 ELSE 0)]
  /\ status' = IF exc = "none" THEN "0" ELSE "1"
  /\ pc' = "exit"
  /\ UNCHANGED << args_output, pending, nread, history, stdout, log, exc >>

\* lines 129-133: close what is open; then the process ends
Finally ==
  /\ pc = "finally"
  /\ output_file' = IF output_file # "None" THEN "closed" ELSE output_file
  /\ ser' = IF ser # "None" THEN "closed" ELSE ser
  /\ closes' = [file |-> closes.file + (IF output_file # "None" THEN 1 ELSE 0),
                port |-> closes.port + (IF ser # "None" THEN 1 ELSE 0)]
  /\ status' = IF exc = "none" THEN "0" ELSE "1"
  /\ pc' = "exit"
  /\ UNCHANGED << args_output, pending, nread, history, stdout, log, exc >>

Next ==
  \/ OpenOutput
  \/ OpenOutputFails
  \/ Connect
  \/ ConnectFails
  \/ ReadLine
  \/ ReadUndecodable
  \/ ReadFails
  \/ Interrupt
  \/ ExceptSerial
  \/ ExceptInterrupt
  \/ Finally

Spec == Init /\ [][Next]_vars

(***************************************************************************)
(* What the claims speak of.                                               *)
(***************************************************************************)
\* the prints made for the k-th line read
PrintsOf(k) == SelectSeq(stdout, LAMBDA e : e.n = k)

\* the texts printed for the k-th line read, in order
OutOf(k) == [i \in 1..Len(PrintsOf(k)) |-> PrintsOf(k)[i].text]

\* the plain-text segments printed around the candidate of the k-th line
SegmentsOf(k) == SelectSeq(PrintsOf(k), LAMBDA e : e.kind \in {"prefix", "suffix"})

\* what is printed for the candidate of the k-th line: its rendering, or itself
CandidatePrintsOf(k) == SelectSeq(PrintsOf(k), LAMBDA e : e.kind \in {"record", "raw"})

\* the prefixes and suffixes of SplitLines with their whitespace trimmed, by hand
Trimmed(t) ==
  CASE t = "" -> ""
    [] t = " " -> ""
    [] t = "Zephyr: init " -> "Zephyr: init"
    [] t = "  a } b" -> "a } b"
    [] t = "}" -> "}"
    [] t = "a" -> "a"
    [] t = " done" -> "done"
    [] t = "b  " -> "b"
    [] t = " { c" -> "{ c"
    [] t = "{" -> "{"

\* the segment print a text gives: none if the text is empty
Segment(kind, n, text) == IF text = "" THEN << >> ELSE << Printed(n, kind, text) >>

HasNo(s, c) == \A i \in 0..(Len(s) - 1) : At(s, i) # c

\* C1: a line prefix + json_object + suffix, the prefix without '{', the suffix
\* without '}', the object a valid flat JSON object, is split into exactly the
\* trimmed prefix (printed only if not empty), the object itself as the candidate,
\* and the trimmed suffix (printed only if not empty).
C1_SplitRecoversObject ==
  \A k \in 1..Len(history) :
    \A p \in Prefixes, b \in FlatObjects, t \in Suffixes :
      history[k].decoded /\ history[k].raw = p \o b \o t
      => /\ history[k].has_candidate
         /\ history[k].candidate = b
         /\ SegmentsOf(k) = Segment("prefix", k, Trimmed(p)) \o Segment("suffix", k, Trimmed(t))

\* a line with text on both sides of a status object was split
C1_Witness ==
  \E k \in 1..Len(history) :
    /\ history[k].raw = "Zephyr: init " \o "{\"type\": \"error\", \"message\": \"}{\"}" \o " { c"
    /\ HasNo("Zephyr: init ", "{") /\ HasNo(" { c", "}")
    /\ history[k].decodes
    /\ history[k].candidate = "{\"type\": \"error\", \"message\": \"}{\"}"
    /\ Len(SegmentsOf(k)) = 2

\* C2: a non-empty line without '{' is printed exactly once, unchanged, and
\* neither parse_device_info nor format_device_info is called for it.
C2_PlainLineVerbatim ==
  \A k \in 1..Len(history) :
    history[k].decoded /\ history[k].line # "" /\ HasNo(history[k].line, "{")
    => /\ OutOf(k) = << history[k].line >>
       /\ history[k].parse_calls = 0
       /\ history[k].format_calls = 0

\* lines without '{', one of them with a '}', were printed
C2_Witness ==
  \E k \in 1..Len(history) :
    /\ history[k].line \in {"Booting UWB firmware v1.2", "a } a"}
    /\ OutOf(k) = << history[k].line >>

\* C6: when no '}' stands at or after the first '{' of a line, the candidate is
\* the line from that '{' to its end, no suffix is printed, and what stands before
\* the '{', any '}' included, is the prefix (trimmed; printed if not empty).
C6_NoClosingBrace ==
  \A k \in 1..Len(history) :
    \A i \in 0..(Len(history[k].line) - 1) :
      /\ history[k].decoded
      /\ At(history[k].line, i) = "{"
      /\ \A j \in 0..(i - 1) : At(history[k].line, j) # "{"
      /\ \A j \in i..(Len(history[k].line) - 1) : At(history[k].line, j) # "}"
      => /\ history[k].has_candidate
         /\ history[k].candidate = Slice(history[k].line, i, Len(history[k].line))
         /\ \A e \in 1..Len(PrintsOf(k)) : PrintsOf(k)[e].kind # "suffix"
         /\ \E t \in 0..i :
              /\ \A j \in t..(i - 1) : At(history[k].line, j) \in Whitespace
              /\ t > 0 => At(history[k].line, t - 1) \notin Whitespace
              /\ SegmentsOf(k) = Segment("prefix", k, Slice(history[k].line, 0, t))

\* a line whose only '}' stands before its '{' was split
C6_Witness ==
  \E k \in 1..Len(history) :
    /\ history[k].line = "a} {"
    /\ history[k].candidate = "{"
    /\ OutOf(k) = << "a}", "{" >>

\* C3: a candidate that json.loads cannot decode raises nothing: it is printed as
\* it is, exactly once, nothing is rendered for it, and the loop goes on.
C3_UndecodablePrintedOnce ==
  \A k \in 1..Len(history) :
    /\ history[k].candidate \in Malformed => ~history[k].decodes
    /\ history[k].has_candidate /\ ~history[k].decodes
       => /\ history[k].raised = "none"
          /\ CandidatePrintsOf(k) = << Printed(k, "raw", history[k].candidate) >>
          /\ history[k].format_calls = 0
          /\ k = Len(history) /\ status = "running"
             => pc \in {"loop", "except_serial", "except_interrupt", "finally"}
                /\ exc \in {"none", "SerialException", "KeyboardInterrupt", "SystemExit"}

\* a truncated object was printed as it is, and the line after it was processed
C3_Witness ==
  /\ Len(history) = 2
  /\ history[1].candidate = "{\"type\":\"device_found\","
  /\ ~history[1].decodes
  /\ OutOf(1) = << "log", "{\"type\":\"device_found\"," >>
  /\ OutOf(2) # << >>

\* C4: no line whose candidate decodes makes the formatter raise, whatever the
\* decoded values are; the loop goes on with the next line.
C4_FormatterNeverRaises ==
  \A k \in 1..Len(history) : history[k].decodes => history[k].raised = "none"

\* C5: every non-empty line yields at least one print.
C5_EveryLineYieldsOutput ==
  \A k \in 1..Len(history) :
    history[k].decoded /\ history[k].line # "" => Len(PrintsOf(k)) >= 1

\* the separator line, written out
SeparatorLine == "============================================================"

\* text without a newline at its front
Unspaced(text) == IF Sub(text, 1, 1) = "\n" THEN Sub(text, 2, Len(text)) ELSE text

StartsWith(text, head) == Sub(text, 1, Len(head)) = head

\* how the lines of the device_found block start, in order
BlockHeads ==
  << SeparatorLine, "Device Found: 0x", SeparatorLine, "Timestamp:", "Distance:", "RSSI:",
     "Channel:", "PRF:", "Frame Quality:", SeparatorLine >>

\* the modelled lines that decode to a record of type device_found
DeviceRecords ==
  {l \in RecordLines \cup FlatObjects : StartsWith(l, "{\"type\":\"device_found\"")}

\* the lines of the status (error) block for the k-th line read
IsMessageBlock(k, label) ==
  \E msg \in {"", "scanning"} :
    /\ OutOf(k) = << "[" \o history[k].now \o "] " \o label \o " " \o msg >>
    /\ history[k].now \in Clock

\* the prints for the k-th line read are the whole device_found block
IsDeviceBlock(k) ==
  /\ Len(OutOf(k)) = Len(BlockHeads)
  /\ \A i \in 1..Len(BlockHeads) :
       i <= Len(OutOf(k)) => StartsWith(Unspaced(OutOf(k)[i]), BlockHeads[i])

\* C7: a decoded record is rendered by the rule of its type and no other:
\* device_found gives the bordered block, status one line tagged STATUS:, error
\* one line tagged ERROR:.
C7_RenderedByType ==
  \A k \in 1..Len(history) :
    /\ history[k].raw \in DeviceRecords => IsDeviceBlock(k)
    /\ history[k].raw \in {ObjectText("status", MessageFields, S) : S \in SUBSET {1}}
       => IsMessageBlock(k, "STATUS:")
    /\ history[k].raw \in {ObjectText("error", MessageFields, S) : S \in SUBSET {1}}
       => IsMessageBlock(k, "ERROR:")

\* the block of a device_found record that has the fields in present, by hand
ExpectedBlock(present) ==
  << "\n" \o SeparatorLine,
     "Device Found: 0x" \o (IF 1 \in present THEN "1A2B3C4D" ELSE "Unknown"),
     SeparatorLine,
     "Timestamp:      " \o (IF 4 \in present THEN "9001" ELSE "0") \o " ms",
     "Distance:       "
       \o (IF 2 \in present THEN "123.45 cm (1.23 m)" ELSE "0.00 cm (0.00 m)"),
     "RSSI:           " \o (IF 3 \in present THEN "-72.50" ELSE "0.00") \o " dBm",
     "Channel:        " \o (IF 5 \in present THEN "5" ELSE "0"),
     "PRF:            " \o (IF 6 \in present THEN "64" ELSE "0") \o " MHz",
     "Frame Quality:  " \o (IF 7 \in present THEN "87" ELSE "0"),
     SeparatorLine >>

\* the records of the wire schema with any of their fields absent are rendered in
\* full, with the defaults for what is absent
DefaultsForAbsent(k) ==
  /\ history[k].raw \in DeviceLines
     => \A S \in SUBSET (1..Len(DeviceFields)) :
          history[k].raw = ObjectText("device_found", DeviceFields, S)
          => history[k].raised = "none" /\ OutOf(k) = ExpectedBlock(S)
  /\ \A t \in {"status", "error"} :
       /\ history[k].raw = ObjectText(t, MessageFields, {})
          => IsMessageBlock(k, IF t = "status" THEN "STATUS:" ELSE "ERROR:")
             /\ Len(OutOf(k)[1]) = Len("[00:00:00] ") + Len(t) + 2
       /\ history[k].raw = ObjectText(t, MessageFields, {1})
          => IsMessageBlock(k, IF t = "status" THEN "STATUS:" ELSE "ERROR:")
             /\ Len(OutOf(k)[1]) = Len("[00:00:00] ") + Len(t) + 2 + Len("scanning")

\* C8: a decoded record of a known type with any of its fields absent is rendered
\* without error and in full, a default standing for each absent field and its
\* own value for each field present.
C8_AbsentFieldsDefault ==
  \A k \in 1..Len(history) :
    /\ DefaultsForAbsent(k)
    /\ history[k].raw \in DeviceRecords => history[k].raised = "none" /\ IsDeviceBlock(k)

\* the place of a print within the prints of its line
Rank(kind) == CASE kind = "prefix" -> 1 [] kind = "suffix" -> 2 [] OTHER -> 3

\* C9: what is printed for a line is printed before the next line is read, so the
\* prints stand in the order of their lines; within a line the prefix comes first,
\* then the suffix, then the rendering or the candidate itself.
C9_OutputOrder ==
  /\ \A i \in 1..Len(stdout) : stdout[i].n <= nread
  /\ \A i, j \in 1..Len(stdout) :
       i < j /\ stdout[i].n > 0 /\ stdout[j].n > 0
       => /\ stdout[i].n <= stdout[j].n
          /\ stdout[i].n = stdout[j].n => Rank(stdout[i].kind) <= Rank(stdout[j].kind)

\* a line with prefix, suffix and record was printed in that order, then another line
C9_Witness ==
  /\ nread = 2
  /\ [i \in 1..Len(PrintsOf(1)) |-> PrintsOf(1)[i].kind] = << "prefix", "suffix", "record" >>
  /\ OutOf(1)[1] = "Zephyr: init" /\ OutOf(1)[2] = "done"
  /\ PrintsOf(2) # << >>

\* the log file was opened at line 67; the port was opened at line 75
FileOpened == \E i \in 1..Len(stdout) : stdout[i].text = "Logging to: " \o args_output

PortOpened == \E i \in 1..Len(stdout) : stdout[i].text = "Connected!"

\* C10: however main() stops, what was opened has been closed, once, when the
\* process ends, and what was never opened has not been closed.
C10_ResourcesReleased ==
  status # "running"
  => /\ FileOpened => output_file = "closed" /\ closes.file = 1
     /\ ~FileOpened => output_file = "None" /\ closes.file = 0
     /\ PortOpened => ser = "closed" /\ closes.port = 1
     /\ ~PortOpened => ser = "None" /\ closes.port = 0

\* the process ended with status 1 after a serial error while reading, both closed
C10_Witness ==
  /\ status = "1"
  /\ exc = "SystemExit"
  /\ nread >= 1
  /\ FileOpened /\ PortOpened
  /\ output_file = "closed" /\ ser = "closed"

====
